---- MODULE Spec2Model ----
(***************************************************************************)
(* A model of astrolog/celestials.py: the Celestial class hierarchy        *)
(* (Planet, Apside, BlackSun, FixedCelestial), its coordinate queries, its *)
(* rise/set/transit search, the module-level constants, and the Swiss      *)
(* Ephemeris engine (swe) as the environment the code talks to.            *)
(*                                                                         *)
(* Four specifications share the module:                                   *)
(*   Spec         one caller: the module load, constructor calls,          *)
(*                coordinate queries and the four event searches           *)
(*   SpecTransits one caller: constructor calls and transits(), which      *)
(*                runs the four event searches                             *)
(*   SpecThreads  two threads issuing coordinate queries on one engine     *)
(*   SpecTrunc    the hour/minute/second decomposition on every input      *)
(***************************************************************************)
EXTENDS Integers, Sequences, FiniteSets, TLC

VARIABLES
    self,        \* <<>> or <<o>>: the object the caller holds (last one built)
    topo,        \* the engine's process-wide topocentric frame: <<>> or <<lon, lat>>
    q,           \* the caller's last call: the method and its arguments
    calls,       \* the engine calls that call made, in order
    res,         \* what that call returned or raised
    modpc,       \* index of the next module-level statement (lines 210-233)
    modstate,    \* "loading" | "loaded" | "failed"
    modattrs,    \* class attributes bound by the module-level statements
    tpc,         \* SpecThreads: each thread's position in its coordinate query
    tloc,        \* SpecThreads: each thread's observer
    tcall,       \* SpecThreads: each thread's last engine position call
    serialized,  \* SpecThreads: whether callers guard the engine with one mutex
    lock,        \* SpecThreads: holder of that mutex, 0 when free
    tmIn,        \* SpecTrunc: the fractional hour handed to the decomposition
    hms          \* SpecTrunc: <<>> or <<[hours, minutes, seconds]>>

vars == <<self, topo, q, calls, res, modpc, modstate, modattrs,
          tpc, tloc, tcall, serialized, lock, tmIn, hms>>

seqVars == <<self, q, calls, res>>
modVars == <<modpc, modstate, modattrs>>
thrVars == <<tpc, tloc, tcall, serialized, lock>>
truncVars == <<tmIn, hms>>

(***************************************************************************)
(* Bounds                                                                  *)
(***************************************************************************)
\* Python floats are binary floating point numbers; the model keeps the
\* arithmetic (every operation rounds to nearest, ties to even) and narrows
\* the significand to MantissaBits bits.
MantissaBits == 8
\* The engine may report an event up to MaxDayOffset days after the search start.
MaxDayOffset == 1

(***************************************************************************)
(* Floating point: a float is an integer count of units of 2^-FracBits     *)
(* hours, kept to MantissaBits significant bits.                           *)
(***************************************************************************)
Pow2(n) == 2 ^ n

RECURSIVE BitLen(_)
BitLen(n) == IF n <= 0 THEN 0 ELSE 1 + BitLen(n \div 2)

\* 1/60 >= 2^-6, so every quotient int(minutes)/60 is a multiple of 2^-FracBits.
FracBits == MantissaBits + 6
U == Pow2(FracBits)

\* num/den (>= 0) rounded to MantissaBits significant bits, ties to even.
RoundRat(num, den) ==
    LET qq == num \div den
        g == IF qq < Pow2(MantissaBits) THEN 1 ELSE Pow2(BitLen(qq) - MantissaBits)
        k == num \div (den * g)
        r == num - k * den * g
        up == (2 * r > den * g) \/ (2 * r = den * g /\ k % 2 = 1)
    IN  (IF up THEN k + 1 ELSE k) * g

FRound(x) == IF x >= 0 THEN RoundRat(x, 1) ELSE 0 - RoundRat(0 - x, 1)
FSub(a, b) == FRound(a - b)
FAdd(a, b) == FRound(a + b)
FMulInt(a, n) == FRound(a * n)
\* Python's int / int: the correctly rounded quotient.
FDivInts(a, b) == RoundRat(a * U, b)
FromInt(n) == n * U
\* Python's int(float): truncation toward zero.
PyInt(x) == IF x >= 0 THEN x \div U ELSE 0 - ((0 - x) \div U)

Representable(x) == FRound(x) = x
\* Every float in [0, 24) of the model's format: a significand of
\* MantissaBits bits times a power of two.
Hours24 ==
    {x \in {m * Pow2(e) : m \in 0..(Pow2(MantissaBits) - 1), e \in 0..(FracBits - MantissaBits + 5)} :
        x < 24 * U}

(***************************************************************************)
(* __rise_trans, lines 90-93: the decomposition of the fractional hour.    *)
(***************************************************************************)
Decompose(tm) ==
    LET hours == PyInt(tm)
        minutes == FMulInt(FSub(tm, FromInt(hours)), 60)
        seconds == FMulInt(FMulInt(FSub(FSub(tm, FromInt(hours)),
                                        FDivInts(PyInt(minutes), 60)), 60), 60)
    IN  [hours |-> hours, minutes |-> PyInt(minutes), seconds |-> PyInt(seconds)]

(***************************************************************************)
(* The engine's time reference.  swe.julday and swe.revjul are the         *)
(* engine's conversions between a calendar date and a Julian day; a time   *)
(* reference is kept as [day, tm]: the Julian day number of the calendar   *)
(* day and the fractional hour within it.                                  *)
(***************************************************************************)
JDN(y, m, d) ==
    LET a == (14 - m) \div 12
        yy == y + 4800 - a
        mm == m + 12 * a - 3
    IN  d + (153 * mm + 2) \div 5 + 365 * yy + yy \div 4 - yy \div 100
          + yy \div 400 - 32045

julday(year, month, day, hour) == [day |-> JDN(year, month, day), tm |-> hour]

revjul(jd) ==
    LET a == jd.day + 32044
        b == (4 * a + 3) \div 146097
        c == a - (146097 * b) \div 4
        d == (4 * c + 3) \div 1461
        e == c - (1461 * d) \div 4
        m == (5 * e + 2) \div 153
    IN  [year |-> 100 * b + d - 4800 + m \div 10,
         month |-> m + 3 - 12 * (m \div 10),
         day |-> e - (153 * m + 2) \div 5 + 1,
         tm |-> jd.tm]

(***************************************************************************)
(* The engine's body codes and flags (swisseph constants the code names).  *)
(***************************************************************************)
swe_SUN == 0
swe_MOON == 1
swe_MERCURY == 2
swe_VENUS == 3
swe_MARS == 4
swe_JUPITER == 5
swe_SATURN == 6
swe_URANUS == 7
swe_NEPTUNE == 8
swe_PLUTO == 9
swe_EARTH == 14
swe_AST_OFFSET == 10000

\* Celestial.NAMES, lines 13-28.
NAMES ==
    [n \in {"SUN", "MOON", "MERCURY", "VENUS", "MARS", "EARTH", "JUPITER",
            "SATURN", "URANUS", "NEPTUNE", "PLUTO", "ERIS", "SEDNA", "QUAOAR"} |->
        CASE n = "SUN" -> swe_SUN
          [] n = "MOON" -> swe_MOON
          [] n = "MERCURY" -> swe_MERCURY
          [] n = "VENUS" -> swe_VENUS
          [] n = "MARS" -> swe_MARS
          [] n = "EARTH" -> swe_EARTH
          [] n = "JUPITER" -> swe_JUPITER
          [] n = "SATURN" -> swe_SATURN
          [] n = "URANUS" -> swe_URANUS
          [] n = "NEPTUNE" -> swe_NEPTUNE
          [] n = "PLUTO" -> swe_PLUTO
          [] n = "ERIS" -> swe_AST_OFFSET + 136199
          [] n = "SEDNA" -> swe_AST_OFFSET + 90377
          [] n = "QUAOAR" -> swe_AST_OFFSET + 50000]

(***************************************************************************)
(* Python values the model needs.                                          *)
(***************************************************************************)
\* An optional value: None is <<>>, a value v is <<v>>.
None == <<>>
Some(v) == <<v>>
\* Truth value of an "int | None" operand of `or`: None and 0 are false.
Truthy(x) == x /= None /\ x[1] /= 0

\* The outcome of a call: exc is "" when it returned val, else the exception raised.
Returned(v) == [exc |-> "", val |-> v]
Raised(e) == [exc |-> e, val |-> None]

\* Name mangling of the private attribute __swe_code inside class cls.
Mangle(cls) == "_" \o cls \o "__swe_code"

(***************************************************************************)
(* Classes                                                                 *)
(***************************************************************************)
Classes == {"Celestial", "Planet", "Apside", "BlackSun", "FixedCelestial"}
\* Classes that leave an abstract method of Celestial unimplemented
\* (lines 95-120): Apside defines neither swe_ecl_coord nor swe_equator_coord.
AbstractClasses == {"Celestial", "Apside"}
\* The class whose __init__ a constructor call runs.
InitClass(cls) == IF cls = "BlackSun" THEN "Apside" ELSE cls

\* A lookup that answers 0 for a name it does not know.
swe_id_by_name_default(name) ==
    IF name \in DOMAIN NAMES THEN Returned(NAMES[name]) ELSE Returned(0)

\* Celestial.swe_id_by_name, lines 99-104.
swe_id_by_name(name) ==
    IF name \in DOMAIN NAMES
    THEN Returned(NAMES[name])
    ELSE Raised("Exception")

\* swe_code or Celestial.swe_id_by_name(name), lines 128 and 153.
CodeOrLookup(swe_code, name) ==
    IF Truthy(swe_code) THEN Returned(swe_code[1]) ELSE swe_id_by_name(name)

\* Planet.__init__ and Apside.__init__, lines 126-128 and 151-153; the call
\* of an abstract class raises TypeError before __init__ runs.
New(cls, name, swe_code) ==
    IF cls \in AbstractClasses
    THEN Raised("TypeError")
    ELSE LET c == CodeOrLookup(swe_code, name)
         IN  IF c.exc /= ""
             THEN Raised(c.exc)
             ELSE Returned(Some([cls |-> cls,
                                 attrs |-> ("name" :> name)
                                           @@ (Mangle(InitClass(cls)) :> c.val)]))

\* FixedCelestial.__init__, lines 188-190.
NewFixed(name, swe_code) ==
    Returned(Some([cls |-> "FixedCelestial",
                   attrs |-> ("name" :> name)
                             @@ (Mangle("FixedCelestial") :> swe_code)]))

\* self.__swe_code read inside a method of class cls.
GetCode(o, cls) ==
    IF Mangle(cls) \in DOMAIN o.attrs
    THEN Returned(o.attrs[Mangle(cls)])
    ELSE Raised("AttributeError")

\* swe_id, lines 136-137, 155-156, 192-193.
swe_id(o) == GetCode(o, InitClass(o.cls)).val

\* is_fixed, lines 130-131, 158-159, 195-196.
is_fixed(o) == o.cls = "FixedCelestial"

\* A predicate that takes no object for a focal point.
is_focal_point_never(o) == FALSE

\* is_focal_point, lines 133-134, 161-162, 198-199.
is_focal_point(o) == o.cls \in {"Apside", "BlackSun"}

(***************************************************************************)
(* Inputs of the queries and the engine's answers                          *)
(***************************************************************************)
\* Observers (GeoLocation): longitude and latitude in degrees.
Locations == {[lon |-> 13, lat |-> 52], [lon |-> 25, lat |-> 78]}
\* Instants (datetime): the day before a leap day, and a year's last day.
Instants ==
    {[year |-> 2024, month |-> 2, day |-> 28, hour |-> 6, minute |-> 30],
     [year |-> 2024, month |-> 12, day |-> 31, hour |-> 23, minute |-> 59]}
\* Coordinate pairs the engine may answer.
Coords == {<<10, 5>>, <<200, 3>>}
\* Fractional hours the engine may report for an event: 18:15:00 and 00:00:00.
EveningHour == 18 * U + U \div 4
EventHours == {0, EveningHour}

\* An answer of a position call (calc_ut, nod_aps_ut, fixstar_ut): it raises
\* swe.Error or returns a coordinate pair.
PosAnswers == {[err |-> TRUE, coord |-> <<0, 0>>]}
              \cup {[err |-> FALSE, coord |-> c] : c \in Coords}

\* An answer of swe.rise_trans: it raises swe.Error, or returns found /= 0
\* (no event), or found = 0 with the event off days after the search start at
\* fractional hour tm.
RiseAnswers ==
    {[err |-> TRUE, found |-> 0, off |-> 0, tm |-> 0],
     [err |-> FALSE, found |-> 0 - 2, off |-> 0, tm |-> 0]}
    \cup {[err |-> FALSE, found |-> 0, off |-> 0, tm |-> h] : h \in EventHours}
    \cup {[err |-> FALSE, found |-> 0, off |-> d, tm |-> 0] : d \in 1..MaxDayOffset}

\* Lines 90-93 applied to each fractional hour the engine may report.
Timedelta == [tm \in EventHours |-> Decompose(tm)]

\* One entry of the engine call log: the function, its arguments, the
\* engine's frame when the call was made, and the engine's answer.
Call(fn, args, frame, ret) == [fn |-> fn, args |-> args, frame |-> frame, ret |-> ret]

\* The results of a query.
NoneRes == [kind |-> "None", val |-> None]
RaiseRes(e) == [kind |-> "raise", val |-> e]
Value(kind, v) == [kind |-> kind, val |-> v]

(***************************************************************************)
(* The variants' raw-coordinate accessors                                  *)
(***************************************************************************)
PosFlags(equatorial) ==
    {"FLG_SWIEPH", "FLG_TOPOCTR"} \cup (IF equatorial THEN {"FLG_EQUATORIAL"} ELSE {})
CoordKind(equatorial) == IF equatorial THEN "EquatorCoord" ELSE "EclCoord"

\* One engine position call and the value built from its answer.
PosCall(fn, args, equatorial, r, frame) ==
    [exc |-> IF r.err THEN "swe.Error" ELSE "",
     val |-> IF r.err THEN None ELSE Value(CoordKind(equatorial), r.coord),
     calls |-> <<Call(fn, args, frame, r)>>]
NoCall(e) == [exc |-> e, val |-> None, calls |-> <<>>]

\* Planet.swe_ecl_coord and Planet.swe_equator_coord, lines 139-145.
Planet_swe_coord(o, jd, equatorial, r, frame) ==
    LET c == GetCode(o, "Planet")
    IN  IF c.exc /= ""
        THEN NoCall(c.exc)
        ELSE PosCall("calc_ut", <<jd, c.val, PosFlags(equatorial)>>, equatorial, r, frame)

\* The node/apsides flag: second focal point, osculating unless mean.
FocalFlags(mean) == {"NODBIT_FOPOINT"} \cup (IF mean THEN {} ELSE {"NODBIT_OSCU"})

\* BlackSun.swe_ecl_coord and BlackSun.swe_equator_coord, lines 168-182: the
\* argument self.__swe_code is evaluated before swe.nod_aps_ut is called.
BlackSun_swe_coord(o, jd, mean, equatorial, r, frame) ==
    LET c == GetCode(o, "BlackSun")
    IN  IF c.exc /= ""
        THEN NoCall(c.exc)
        ELSE PosCall("nod_aps_ut", <<jd, c.val, FocalFlags(mean), PosFlags(equatorial)>>,
                     equatorial, r, frame)

\* FixedCelestial.swe_ecl_coord and swe_equator_coord, lines 201-207.
FixedCelestial_swe_coord(o, jd, equatorial, r, frame) ==
    LET c == GetCode(o, "FixedCelestial")
    IN  IF c.exc /= ""
        THEN NoCall(c.exc)
        ELSE PosCall("fixstar_ut", <<c.val, jd, PosFlags(equatorial)>>, equatorial, r, frame)

\* self.swe_ecl_coord(jd) / self.swe_equator_coord(jd): dynamic dispatch.
swe_coord(o, jd, mean, equatorial, r, frame) ==
    CASE o.cls = "Planet" -> Planet_swe_coord(o, jd, equatorial, r, frame)
      [] o.cls = "BlackSun" -> BlackSun_swe_coord(o, jd, mean, equatorial, r, frame)
      [] o.cls = "FixedCelestial" -> FixedCelestial_swe_coord(o, jd, equatorial, r, frame)

(***************************************************************************)
(* The coordinate queries of Celestial                                     *)
(***************************************************************************)
\* A set_topo that leaves the engine's frame as it was.
set_topo_skipped(frame, location) == frame

\* swe.set_topo(location.longitude.degrees, location.latitude.degrees): the
\* engine's frame after the call (lines 31, 36, 41).
set_topo(frame, location) == <<location.lon, location.lat>>

\* swe.julday(time.year, time.month, time.day, time.hour + time.minute / 60.)
InstantJd(time) ==
    julday(time.year, time.month, time.day,
           FAdd(FromInt(time.hour), FDivInts(time.minute, 60)))

\* Celestial.ecl_coord and Celestial.equator_coord, lines 30-38.
coord_query(o, time, location, equatorial, r, frame) ==
    LET t1 == set_topo(frame, location)
        first == Call("set_topo", <<location.lon, location.lat>>, frame, None)
        inner == swe_coord(o, InstantJd(time), FALSE, equatorial, r, t1)
    IN  [topo |-> t1,
         calls |-> <<first>> \o inner.calls,
         res |-> IF inner.exc = "" THEN inner.val ELSE RaiseRes(inner.exc)]

\* Celestial.hor_coord, lines 40-49; az is the engine's (azimuth, true_alt).
hor_coord(o, time, location, r, az, frame) ==
    LET t1 == set_topo(frame, location)
        jd == InstantJd(time)
        first == Call("set_topo", <<location.lon, location.lat>>, frame, None)
        inner == swe_coord(o, jd, FALSE, TRUE, r, t1)
        geopos == <<location.lon, location.lat, 0>>
    IN  IF inner.exc /= ""
        THEN [topo |-> t1, calls |-> <<first>> \o inner.calls, res |-> RaiseRes(inner.exc)]
        ELSE [topo |-> t1,
              calls |-> <<first>> \o inner.calls
                        \o <<Call("azalt",
                                  <<jd, "EQU2HOR", geopos, 0, 0,
                                    <<inner.val.val[1], inner.val.val[2], 0>> >>,
                                  t1, az)>>,
              res |-> Value("HorCoord", az)]

(***************************************************************************)
(* The transit search, Celestial.__rise_trans, lines 71-93                 *)
(***************************************************************************)
\* rsmi |= BIT_DISC_CENTER | BIT_FIXED_DISC_SIZE | BIT_NO_REFRACTION | BIT_ASTRO_TWILIGHT
EventFlags(rsmi) ==
    {rsmi, "BIT_DISC_CENTER", "BIT_FIXED_DISC_SIZE", "BIT_NO_REFRACTION",
     "BIT_ASTRO_TWILIGHT"}

\* A comparison that forgets the day of the month.
SameDayMonthOnly(c, when) == c.year = when.year /\ c.month = when.month

\* not (year != when.year or month != when.month or day != when.day), line 88.
SameDay(c, when) ==
    c.year = when.year /\ c.month = when.month /\ c.day = when.day

\* The engine's (found, jultime) for an answer r to a search from tjdut.
RiseReturn(tjdut, r) ==
    [found |-> r.found, jultime |-> [day |-> tjdut.day + r.off, tm |-> r.tm]]

\* A search that treats the engine's failure as "no event".
search_swallowing(o, when, location, rsmi, r, frame) ==
    LET tjdut == julday(when.year, when.month, when.day, 0)
        ret == RiseReturn(tjdut, r)
        call == Call("rise_trans",
                     <<tjdut, swe_id(o), EventFlags(rsmi),
                       <<location.lon, location.lat, 0>>, 0, 0,
                       {"FLG_SWIEPH", "FLG_TOPOCTR"}>>,
                     frame, [err |-> r.err, found |-> ret.found, jultime |-> ret.jultime])
        c == revjul(ret.jultime)
    IN  [calls |-> <<call>>,
         res |-> IF r.err \/ ret.found /= 0 \/ ~SameDay(c, when)
                 THEN NoneRes
                 ELSE Value("timedelta", Timedelta[c.tm])]

\* Lines 74-93: the search of a non-focal object.
search(o, when, location, rsmi, r, frame) ==
    LET tjdut == julday(when.year, when.month, when.day, 0)
        ret == RiseReturn(tjdut, r)
        call == Call("rise_trans",
                     <<tjdut, swe_id(o), EventFlags(rsmi),
                       <<location.lon, location.lat, 0>>, 0, 0,
                       {"FLG_SWIEPH", "FLG_TOPOCTR"}>>,
                     frame, [err |-> r.err, found |-> ret.found, jultime |-> ret.jultime])
        c == revjul(ret.jultime)
    IN  [calls |-> <<call>>,
         res |-> IF r.err THEN RaiseRes("swe.Error")
                 ELSE IF ret.found /= 0 THEN NoneRes
                 ELSE IF ~SameDay(c, when) THEN NoneRes
                 ELSE Value("timedelta", Timedelta[c.tm])]

\* Celestial.__rise_trans, lines 71-93.
Celestial__rise_trans(o, when, location, rsmi, r, frame) ==
    IF is_focal_point(o)
    THEN [calls |-> <<>>, res |-> NoneRes]
    ELSE search(o, when, location, rsmi, r, frame)

\* The event kind each public method searches for, lines 59-69.
EventMethods == {"rises", "sets", "mc_trans", "ic_trans"}
EventOf(method) ==
    CASE method = "rises" -> "CALC_RISE"
      [] method = "sets" -> "CALC_SET"
      [] method = "mc_trans" -> "CALC_MTRANSIT"
      [] method = "ic_trans" -> "CALC_ITRANSIT"

\* The engine's frame after swe.rise_trans was handed geopos (lines 82-84):
\* the code does not say whether the engine keeps the observer it was given
\* as its frame, so either may happen.
rise_trans_frame(frame, location, keeps) ==
    IF keeps THEN <<location.lon, location.lat>> ELSE frame

\* Celestial.transits, lines 51-57: the dict display evaluates rises, sets,
\* mc_trans, ic_trans in that order (a, b, c, d are what each does when it
\* is reached); an exception leaves the display at once.
transits(a, b, c, d) ==
    IF a.res.kind = "raise" THEN a
    ELSE IF b.res.kind = "raise"
         THEN [calls |-> a.calls \o b.calls, res |-> b.res]
    ELSE IF c.res.kind = "raise"
         THEN [calls |-> a.calls \o b.calls \o c.calls, res |-> c.res]
    ELSE IF d.res.kind = "raise"
         THEN [calls |-> a.calls \o b.calls \o c.calls \o d.calls, res |-> d.res]
    ELSE [calls |-> a.calls \o b.calls \o c.calls \o d.calls,
          res |-> Value("dict", [rise |-> a.res, set |-> b.res,
                                 mc |-> c.res, ic |-> d.res])]

(***************************************************************************)
(* The module-level statements, lines 210-233                              *)
(***************************************************************************)
NewStmt(target, cls, name, code) ==
    [op |-> "new", target |-> target, cls |-> cls, name |-> name, code |-> code,
     refs |-> <<>>]
ListStmt(target, refs) ==
    [op |-> "list", target |-> target, cls |-> "", name |-> "", code |-> None,
     refs |-> refs]

Septener == <<"Planet.Sun", "Planet.Mars", "Planet.Moon", "Planet.Mercury",
              "Planet.Jupiter", "Planet.Venus", "Planet.Saturn">>

ModuleStatements ==
    << NewStmt("Planet.Sun", "Planet", "Sun", None),
       NewStmt("Planet.Moon", "Planet", "Moon", None),
       NewStmt("Planet.Mercury", "Planet", "Mercury", None),
       NewStmt("Planet.Venus", "Planet", "Venus", None),
       NewStmt("Planet.Earth", "Planet", "Earth", None),
       NewStmt("Planet.Mars", "Planet", "Mars", None),
       NewStmt("Planet.Jupiter", "Planet", "Jupiter", None),
       NewStmt("Planet.Saturn", "Planet", "Saturn", None),
       NewStmt("Planet.Uranus", "Planet", "Uranus", None),
       NewStmt("Planet.Neptune", "Planet", "Neptune", None),
       NewStmt("Planet.Pluto", "Planet", "Pluto", None),
       ListStmt("Planet.septener", Septener),
       ListStmt("Planet.novile", Septener \o <<"Planet.Uranus", "Planet.Neptune">>),
       NewStmt("BlackSun.BlackEarth", "BlackSun", "Black Earth", Some(swe_MOON)),
       NewStmt("BlackSun.Mercury", "BlackSun", "BS Mercury", Some(swe_MERCURY)),
       NewStmt("BlackSun.Venus", "BlackSun", "BS Venus", Some(swe_VENUS)),
       NewStmt("BlackSun.Earth", "BlackSun", "BS Earth", Some(swe_EARTH)),
       NewStmt("BlackSun.Mars", "BlackSun", "BS Mars", Some(swe_MARS)),
       NewStmt("BlackSun.Jupiter", "BlackSun", "BS Jupiter", Some(swe_JUPITER)),
       NewStmt("BlackSun.Saturn", "BlackSun", "BS Saturn", Some(swe_SATURN)),
       NewStmt("BlackSun.Uranus", "BlackSun", "BS Uranus", Some(swe_URANUS)),
       NewStmt("BlackSun.Neptune", "BlackSun", "BS Neptune", Some(swe_NEPTUNE)) >>

Targets == {ModuleStatements[i].target : i \in DOMAIN ModuleStatements}

(***************************************************************************)
(* Spec: one caller.  The module-level statements run first, when the      *)
(* module is imported; the classes of lines 10-207 are defined by then,    *)
(* and the caller uses them whatever became of the statements after them.  *)
(***************************************************************************)
CtorClasses == {"Planet", "Apside", "BlackSun"}
CtorNames == {"PLUTO", "VULCAN"}
CtorCodes == {None, Some(swe_SUN), Some(swe_EARTH)}
Designators == {"Sirius"}

\* The four answers of one transits() call: all alike, or one unlike the rest.
AnswerTuples ==
    {<<a, a, a, a>> : a \in RiseAnswers}
    \cup {[i \in 1..4 |-> IF i = k THEN b ELSE a] :
            k \in 1..4,
            a \in {r \in RiseAnswers : ~r.err /\ r.found = 0 /\ r.off = 0 /\ r.tm = EveningHour},
            b \in RiseAnswers}

Op(method, args) == [method |-> method, args |-> args]

InitSeq ==
    /\ self = None
    /\ topo = <<>>
    /\ q = Op("", None)
    /\ calls = <<>>
    /\ res = NoneRes
InitMod ==
    /\ modpc = 1
    /\ modstate = "loading"
    /\ modattrs = [t \in Targets |-> None]
InitThreads ==
    /\ tpc = [t \in {1, 2} |-> "idle"]
    /\ tloc = [t \in {1, 2} |-> CHOOSE l \in Locations : TRUE]
    /\ tcall = [t \in {1, 2} |-> None]
    /\ serialized = TRUE
    /\ lock = 0
InitTrunc ==
    /\ tmIn = 0
    /\ hms = None

Init == InitSeq /\ InitMod /\ InitThreads /\ InitTrunc

\* cls(name, swe_code): Planet, Apside, BlackSun.
Construct(cls, name, code) ==
    \E out \in {New(cls, name, code)} :
        /\ modstate /= "loading"
        /\ q' = Op("__init__", [cls |-> cls, name |-> name, code |-> code])
        /\ calls' = <<>>
        /\ res' = IF out.exc = "" THEN Value("object", out.val[1]) ELSE RaiseRes(out.exc)
        /\ self' = IF out.exc = "" THEN out.val ELSE self
        /\ UNCHANGED <<topo, modVars, thrVars, truncVars>>

\* FixedCelestial(name, swe_code).
ConstructFixed(name, code) ==
    \E out \in {NewFixed(name, code)} :
        /\ modstate /= "loading"
        /\ q' = Op("__init__", [cls |-> "FixedCelestial", name |-> name, code |-> Some(code)])
        /\ calls' = <<>>
        /\ res' = Value("object", out.val[1])
        /\ self' = out.val
        /\ UNCHANGED <<topo, modVars, thrVars, truncVars>>

\* self.ecl_coord(time, location) / self.equator_coord(time, location).
CoordQuery(equatorial, time, location, r) ==
    /\ self /= None
    /\ \E out \in {coord_query(self[1], time, location, equatorial, r, topo)} :
           /\ q' = Op(IF equatorial THEN "equator_coord" ELSE "ecl_coord",
                      [time |-> time, location |-> location])
           /\ topo' = out.topo
           /\ calls' = out.calls
           /\ res' = out.res
    /\ UNCHANGED <<self, modVars, thrVars, truncVars>>

\* self.hor_coord(time, location).
HorQuery(time, location, r, az) ==
    /\ self /= None
    /\ \E out \in {hor_coord(self[1], time, location, r, az, topo)} :
           /\ q' = Op("hor_coord", [time |-> time, location |-> location])
           /\ topo' = out.topo
           /\ calls' = out.calls
           /\ res' = out.res
    /\ UNCHANGED <<self, modVars, thrVars, truncVars>>

\* self.swe_ecl_coord(jd, mean) / self.swe_equator_coord(jd, mean) of a BlackSun.
FocalQuery(equatorial, time, mean, r) ==
    /\ self /= None
    /\ self[1].cls = "BlackSun"
    /\ \E out \in {BlackSun_swe_coord(self[1], InstantJd(time), mean, equatorial, r, topo)} :
           /\ q' = Op(IF equatorial THEN "swe_equator_coord" ELSE "swe_ecl_coord",
                      [time |-> time, mean |-> mean])
           /\ calls' = out.calls
           /\ res' = IF out.exc = "" THEN out.val ELSE RaiseRes(out.exc)
    /\ UNCHANGED <<self, topo, modVars, thrVars, truncVars>>

\* self.rises / self.sets / self.mc_trans / self.ic_trans (time, location).
EventQuery(method, time, location, r, keeps) ==
    /\ self /= None
    /\ \E out \in {Celestial__rise_trans(self[1], time, location, EventOf(method), r, topo)} :
           /\ q' = Op(method, [time |-> time, location |-> location])
           /\ calls' = out.calls
           /\ res' = out.res
           /\ topo' = IF out.calls = <<>> THEN topo
                      ELSE rise_trans_frame(topo, location, keeps)
    /\ UNCHANGED <<self, modVars, thrVars, truncVars>>

\* self.transits(time, location).
TransitsQuery(time, location, rs, keeps) ==
    /\ self /= None
    /\ \E next \in {rise_trans_frame(topo, location, keeps)},
          a \in {Celestial__rise_trans(self[1], time, location, "CALC_RISE", rs[1], topo)} :
       \E b \in {Celestial__rise_trans(self[1], time, location, "CALC_SET", rs[2], next)},
          c \in {Celestial__rise_trans(self[1], time, location, "CALC_MTRANSIT", rs[3], next)},
          d \in {Celestial__rise_trans(self[1], time, location, "CALC_ITRANSIT", rs[4], next)} :
       \E out \in {transits(a, b, c, d)} :
           /\ q' = Op("transits", [time |-> time, location |-> location])
           /\ calls' = out.calls
           /\ res' = out.res
           /\ topo' = IF out.calls = <<>> THEN topo
                      ELSE rise_trans_frame(topo, location, keeps)
    /\ UNCHANGED <<self, modVars, thrVars, truncVars>>

\* What one module-level statement evaluates to: a constructor call, or a
\* list of objects bound by earlier statements (lines 222-223).
RunStatement(st, attrs) ==
    IF st.op = "new"
    THEN New(st.cls, st.name, st.code)
    ELSE Returned(Some([i \in DOMAIN st.refs |-> attrs[st.refs[i]][1]]))

\* One module-level statement, lines 210-233; an exception ends the import.
LoadStep ==
    /\ modstate = "loading"
    /\ \E st \in {ModuleStatements[modpc]} :
         \E out \in {RunStatement(st, modattrs)} :
           IF out.exc /= ""
           THEN /\ modstate' = "failed"
                /\ UNCHANGED <<modpc, modattrs>>
           ELSE /\ modattrs' = [modattrs EXCEPT ![st.target] = out.val]
                /\ modpc' = modpc + 1
                /\ modstate' = IF modpc = Len(ModuleStatements) THEN "loaded" ELSE "loading"
    /\ UNCHANGED <<self, topo, q, calls, res, thrVars, truncVars>>

Build ==
    \/ \E cls \in CtorClasses, name \in CtorNames, code \in CtorCodes :
          Construct(cls, name, code)
    \/ \E name \in Designators, code \in Designators : ConstructFixed(name, code)
    \/ LoadStep

Events ==
    \E m \in EventMethods, t \in Instants, l \in Locations, r \in RiseAnswers,
       keeps \in BOOLEAN :
       EventQuery(m, t, l, r, keeps)

\* The constructors, the coordinate queries and the four event searches.
Next ==
    \/ Build
    \/ \E e \in BOOLEAN, t \in Instants, l \in Locations, r \in PosAnswers :
          CoordQuery(e, t, l, r)
    \/ \E t \in Instants, l \in Locations, r \in PosAnswers, az \in Coords :
          HorQuery(t, l, r, az)
    \/ \E e \in BOOLEAN, t \in Instants, m \in BOOLEAN, r \in PosAnswers :
          FocalQuery(e, t, m, r)
    \/ Events

Spec == Init /\ [][Next]_vars

\* The constructors and transits(), which runs the four event searches.
NextTransits ==
    \/ Build
    \/ \E t \in Instants, l \in Locations, rs \in AnswerTuples, keeps \in BOOLEAN :
          TransitsQuery(t, l, rs, keeps)

SpecTransits == Init /\ [][NextTransits]_vars

(***************************************************************************)
(* SpecThreads: two threads, each running ecl_coord / equator_coord of a   *)
(* Planet (lines 30-38, 139-145) against the one engine.  The code takes   *)
(* no lock; `serialized` says whether the callers wrap each query in one   *)
(* mutex of their own.                                                     *)
(***************************************************************************)
Threads == {1, 2}
Other(t) == 3 - t

\* A thread calls ecl_coord(time, location) or equator_coord(time, location).
TCall(t, location) ==
    /\ tpc[t] = "idle"
    /\ tpc' = [tpc EXCEPT ![t] = "called"]
    /\ tloc' = [tloc EXCEPT ![t] = location]
    /\ UNCHANGED <<tcall, serialized, lock, topo, seqVars, modVars, truncVars>>

\* The caller's mutex, when the callers use one: the query starts once it is free.
TEnter(t) ==
    /\ tpc[t] = "called"
    /\ serialized => lock = 0
    /\ lock' = IF serialized THEN t ELSE lock
    /\ tpc' = [tpc EXCEPT ![t] = "line31"]
    /\ UNCHANGED <<tloc, tcall, serialized, topo, seqVars, modVars, truncVars>>

\* Lines 31 and 36: swe.set_topo(...).
TSetTopo(t) ==
    /\ tpc[t] = "line31"
    /\ topo' = set_topo(topo, tloc[t])
    /\ tpc' = [tpc EXCEPT ![t] = "line33"]
    /\ UNCHANGED <<tloc, tcall, serialized, lock, seqVars, modVars, truncVars>>

\* Lines 32-33, 140: swe.julday, then swe.calc_ut under the engine's frame
\* of that moment; rival is the observer of the other thread's query, if it
\* has one under way.
TPosition(t) ==
    /\ tpc[t] = "line33"
    /\ tcall' = [tcall EXCEPT ![t] =
                    Some([loc |-> tloc[t], frame |-> topo, ser |-> serialized,
                          rival |-> IF tpc[Other(t)] = "idle"
                                    THEN None ELSE Some(tloc[Other(t)])])]
    /\ tpc' = [tpc EXCEPT ![t] = "return"]
    /\ UNCHANGED <<tloc, serialized, lock, topo, seqVars, modVars, truncVars>>

\* The query returns; the caller releases its mutex.
TReturn(t) ==
    /\ tpc[t] = "return"
    /\ tpc' = [tpc EXCEPT ![t] = "idle"]
    /\ lock' = IF lock = t THEN 0 ELSE lock
    /\ UNCHANGED <<tloc, tcall, serialized, topo, seqVars, modVars, truncVars>>

\* Between queries the callers adopt or drop the mutex.
SetSerialized(b) ==
    /\ \A t \in Threads : tpc[t] = "idle"
    /\ serialized /= b
    /\ serialized' = b
    /\ UNCHANGED <<tpc, tloc, tcall, lock, topo, seqVars, modVars, truncVars>>

NextThreads ==
    \/ \E t \in Threads, l \in Locations : TCall(t, l)
    \/ \E t \in Threads : TEnter(t)
    \/ \E t \in Threads : TSetTopo(t)
    \/ \E t \in Threads : TPosition(t)
    \/ \E t \in Threads : TReturn(t)
    \/ \E b \in BOOLEAN : SetSerialized(b)

SpecThreads == Init /\ [][NextThreads]_vars

(***************************************************************************)
(* SpecTrunc: lines 90-93 on every fractional hour the engine may return.  *)
(***************************************************************************)
\* swe.revjul hands the code a fractional hour tm in [0, 24).
InitAnyHour ==
    /\ InitSeq /\ InitMod /\ InitThreads
    /\ tmIn \in Hours24
    /\ hms = None

\* Lines 90-93: hours, int(minutes), int(seconds).
Decomposition ==
    /\ hms = None
    /\ hms' = Some(Decompose(tmIn))
    /\ UNCHANGED <<tmIn, topo, seqVars, modVars, thrVars>>

NextTrunc == Decomposition

SpecTrunc == InitAnyHour /\ [][NextTrunc]_vars

(***************************************************************************)
(* Properties                                                              *)
(***************************************************************************)
FocalClasses == {"Apside", "BlackSun"}
CoordMethods == {"ecl_coord", "equator_coord", "hor_coord"}
FocalMethods == {"swe_ecl_coord", "swe_equator_coord"}
PositionCalls == {"calc_ut", "nod_aps_ut", "fixstar_ut", "azalt"}
\* The observer of the last query, as the engine's frame holds it.
Observer == <<q.args.location.lon, q.args.location.lat>>
\* The calendar date of an engine time reference against that of a datetime.
SameDate(jd, when) ==
    LET c == revjul(jd)
    IN  c.year = when.year /\ c.month = when.month /\ c.day = when.day

\* C1: transits() of a focal point (Apside, BlackSun) answers None for rise,
\* set, mc and ic, whatever the date and the observer, and the query makes
\* no engine call at all, so swe.rise_trans is called zero times.
C1_FocalPointHasNoTransits ==
    (q.method = "transits" /\ self[1].cls \in FocalClasses) =>
        /\ res.kind = "dict"
        /\ \A k \in {"rise", "set", "mc", "ic"} : res.val[k].kind = "None"
        /\ \A i \in DOMAIN calls : calls[i].fn /= "rise_trans"
        /\ calls = <<>>

\* C1 witness: a BlackSun has answered a transits() query.
C1_Witness ==
    /\ q.method = "transits"
    /\ self[1].cls = "BlackSun"
    /\ res.kind = "dict"
    /\ res.val["rise"].kind = "None"

\* C2: in a rises/sets/mc_trans/ic_trans query of a non-focal object, an
\* event the engine reports on another calendar date than the queried one
\* yields None, and a time of day is returned only when the engine reported
\* found = 0 and year, month and day all equal the queried day.
C2_DayValidation ==
    (q.method \in EventMethods /\ self[1].cls \notin FocalClasses) =>
        /\ Len(calls) = 1
        /\ (/\ ~calls[1].ret.err
            /\ calls[1].ret.found = 0
            /\ ~SameDate(calls[1].ret.jultime, q.args.time)) => res.kind = "None"
        /\ res.kind = "timedelta" =>
              /\ ~calls[1].ret.err
              /\ calls[1].ret.found = 0
              /\ SameDate(calls[1].ret.jultime, q.args.time)

\* C2 witness: the engine found an event on the day after the queried one,
\* still in the same month, and the query answered None.
C2_Witness ==
    /\ q.method \in EventMethods
    /\ self[1].cls \notin FocalClasses
    /\ ~calls[1].ret.err
    /\ calls[1].ret.found = 0
    /\ revjul(calls[1].ret.jultime).month = q.args.time.month
    /\ revjul(calls[1].ret.jultime).day = q.args.time.day + 1
    /\ res.kind = "None"

\* C3: for every fractional hour tm in [0, 24) the decomposition never
\* overstates it: hours + minutes/60 + seconds/3600 <= tm, with minutes and
\* seconds in 0..59.  (3600 / U is written 225 / (U / 16).)
C3_TruncationNeverOverstates ==
    hms /= None =>
        /\ (hms[1].hours * 3600 + hms[1].minutes * 60 + hms[1].seconds) * (U \div 16)
              <= tmIn * 225
        /\ hms[1].minutes \in 0..59
        /\ hms[1].seconds \in 0..59

\* C4: Planet(name) with no body code raises at construction and yields no
\* object when the name is not in NAMES ("VULCAN"); for a name of NAMES
\* ("PLUTO") it yields a moving object (neither fixed nor a focal point)
\* whose swe_id() is the catalog's code.
C4_NameResolution ==
    (q.method = "__init__" /\ q.args.cls = "Planet" /\ q.args.code = None) =>
        IF q.args.name \in DOMAIN NAMES
        THEN /\ res.kind = "object"
             /\ self = Some(res.val)
             /\ res.val.cls = "Planet"
             /\ ~is_fixed(res.val) /\ ~is_focal_point(res.val)
             /\ swe_id(res.val) = NAMES[q.args.name]
        ELSE /\ res.kind = "raise"
             /\ res.val = "Exception"

\* C4 witness: Planet("VULCAN") has raised.
C4_Witness ==
    /\ q.method = "__init__"
    /\ q.args.cls = "Planet"
    /\ q.args.code = None
    /\ q.args.name = "VULCAN"
    /\ res.kind = "raise"

\* The catalog entry a module-level constant is named after.
CatalogName(name) ==
    CASE name = "Sun" -> "SUN"
      [] name = "Moon" -> "MOON"
      [] name = "Mercury" -> "MERCURY"
      [] name = "Venus" -> "VENUS"
      [] name = "Earth" -> "EARTH"
      [] name = "Mars" -> "MARS"
      [] name = "Jupiter" -> "JUPITER"
      [] name = "Saturn" -> "SATURN"
      [] name = "Uranus" -> "URANUS"
      [] name = "Neptune" -> "NEPTUNE"
      [] name = "Pluto" -> "PLUTO"

\* C5: the module-level constants (Planet.Sun ... Planet.Pluto from their
\* names, BlackSun.* from a name and a code) are all constructed at module
\* load: no statement raises, and each constant bound so far carries the
\* body code of its catalog entry.
C5_ConstantsAreConstructed ==
    /\ modstate /= "failed"
    /\ \A i \in 1..(modpc - 1) :
          ModuleStatements[i].op = "new" =>
             /\ modattrs[ModuleStatements[i].target] /= None
             /\ swe_id(modattrs[ModuleStatements[i].target][1])
                  = IF ModuleStatements[i].code = None
                    THEN NAMES[CatalogName(ModuleStatements[i].name)]
                    ELSE ModuleStatements[i].code[1]

\* C6: a coordinate query of a BlackSun calls swe.nod_aps_ut with the body
\* code given at construction and NODBIT_FOPOINT, with NODBIT_OSCU exactly
\* when mean is false, returns the coordinate the engine answers, and
\* makes no transit search.
C6_FocalCoordinateQuery ==
    (q.method \in {"ecl_coord", "equator_coord"} \cup FocalMethods
       /\ self[1].cls = "BlackSun") =>
        /\ \E i \in DOMAIN calls :
              /\ calls[i].fn = "nod_aps_ut"
              /\ calls[i].args[2] = swe_id(self[1])
              /\ calls[i].args[3]
                   = {"NODBIT_FOPOINT"}
                     \cup (IF q.method \in FocalMethods /\ q.args.mean
                           THEN {} ELSE {"NODBIT_OSCU"})
              /\ ~calls[i].ret.err =>
                    /\ res.kind \in {"EclCoord", "EquatorCoord"}
                    /\ res.val = calls[i].ret.coord
        /\ \A i \in DOMAIN calls : calls[i].fn /= "rise_trans"

\* C7 as stated: every query (ecl_coord, equator_coord, hor_coord and each
\* rise/set/transit search) sets the engine's frame to its observer before
\* its first engine position or search call, so that every such call runs
\* under the query's observer and the frame equals it afterwards.
C7_EveryQuerySetsTheFrame ==
    (q.method \in CoordMethods \cup EventMethods) =>
        /\ \A i \in DOMAIN calls :
              calls[i].fn \in PositionCalls \cup {"rise_trans"} =>
                 calls[i].frame = Observer
        /\ calls /= <<>> => topo = Observer

\* C7 as amended: ecl_coord, equator_coord and hor_coord call set_topo with
\* their observer before their first engine position call, so each of their
\* position calls runs under that observer and the frame equals it when
\* the query ends; a rise/set/transit search never calls set_topo: it hands
\* its observer to swe.rise_trans as the geopos argument; a constructor
\* leaves the frame alone.
C7_CoordinateQueriesSetTheFrame ==
    [][ /\ q'.method \in CoordMethods =>
              /\ calls'[1].fn = "set_topo"
              /\ calls'[1].args = <<q'.args.location.lon, q'.args.location.lat>>
              /\ \A i \in 2..Len(calls') :
                    /\ calls'[i].fn \in PositionCalls
                    /\ calls'[i].frame = <<q'.args.location.lon, q'.args.location.lat>>
              /\ topo' = <<q'.args.location.lon, q'.args.location.lat>>
        /\ q'.method \notin CoordMethods =>
              \A i \in DOMAIN calls' : calls'[i].fn /= "set_topo"
        /\ q'.method \notin CoordMethods \cup EventMethods => topo' = topo
        /\ q'.method \in EventMethods =>
              \A i \in DOMAIN calls' :
                 /\ calls'[i].fn = "rise_trans"
                 /\ calls'[i].args[4]
                      = <<q'.args.location.lon, q'.args.location.lat, 0>>
      ]_vars

\* C7 witness: a search ran while the engine's frame was the observer of an
\* earlier coordinate query, not its own, and the frame is still that one.
C7_Witness ==
    /\ q.method \in EventMethods
    /\ calls /= <<>>
    /\ calls[1].fn = "rise_trans"
    /\ calls[1].frame /= <<>>
    /\ calls[1].frame /= Observer
    /\ topo = calls[1].frame

\* The event kinds in the order transits() searches them.
EventOrder == <<"CALC_RISE", "CALC_SET", "CALC_MTRANSIT", "CALC_ITRANSIT">>
EventKeys == <<"rise", "set", "mc", "ic">>

\* C8: in transits() of a non-focal object, which runs rises(), sets(),
\* mc_trans() and ic_trans() in that order, the three outcomes stay apart.
\* Each search makes one swe.rise_trans call for its event kind; an
\* engine failure propagates as the query's error and is the last call made
\* (no retry, nothing turned into None); without a failure all four kinds
\* are searched exactly once, and a kind the engine did not find, or found
\* on another day, is None and never an error.
C8_OutcomesStayDistinct ==
    (q.method = "transits" /\ self[1].cls \notin FocalClasses) =>
        /\ Len(calls) \in 1..4
        /\ \A i \in DOMAIN calls :
              /\ calls[i].fn = "rise_trans"
              /\ calls[i].args[3] = EventFlags(EventOrder[i])
              /\ calls[i].ret.err => i = Len(calls)
        /\ calls[Len(calls)].ret.err <=> res.kind = "raise"
        /\ res.kind = "raise" => res.val = "swe.Error"
        /\ res.kind /= "raise" =>
              /\ res.kind = "dict"
              /\ Len(calls) = 4
              /\ \A i \in 1..4 :
                    (calls[i].ret.found /= 0
                       \/ ~SameDate(calls[i].ret.jultime, q.args.time))
                    => res.val[EventKeys[i]].kind = "None"

\* C8 witness: the engine failed in the third search of a transits() query,
\* after two searches that found their event; the query raised.
C8_Witness ==
    /\ q.method = "transits"
    /\ self[1].cls \notin FocalClasses
    /\ Len(calls) = 3
    /\ calls[3].ret.err
    /\ ~calls[1].ret.err /\ calls[1].ret.found = 0
    /\ res.kind = "raise"

\* C9: when each query's set_topo and its position call run as one
\* serialized unit, every position call sees the frame of its own observer.
C9_SerializedQueriesSeeTheirFrame ==
    \A t \in Threads :
       (tcall[t] /= None /\ tcall[t][1].ser) =>
          tcall[t][1].frame = <<tcall[t][1].loc.lon, tcall[t][1].loc.lat>>

\* C9 witness: one thread's serialized position call saw its own frame
\* while the other thread had a query with another observer under way, and
\* the other thread's later unserialized position call ran under the frame
\* of a query that was not its own.
C9_Witness ==
    \E t \in Threads :
       /\ tcall[t] /= None /\ tcall[Other(t)] /= None
       /\ tcall[t][1].ser
       /\ tcall[t][1].rival /= None
       /\ tcall[t][1].rival /= Some(tcall[t][1].loc)
       /\ tcall[t][1].frame = <<tcall[t][1].loc.lon, tcall[t][1].loc.lat>>
       /\ ~tcall[Other(t)][1].ser
       /\ tcall[Other(t)][1].frame
            /= <<tcall[Other(t)][1].loc.lon, tcall[Other(t)][1].loc.lat>>

\* C10: a Planet or BlackSun built with an explicit body code never consults
\* the name catalog: whatever the name, and for code 0 too, construction
\* succeeds and swe_id() is the code supplied.
C10_ExplicitCodeIsKept ==
    (q.method = "__init__" /\ q.args.cls \in {"Planet", "BlackSun"}
       /\ q.args.code /= None) =>
        /\ res.kind = "object"
        /\ swe_id(res.val) = q.args.code[1]

====
